---- MODULE Spec2Model ----
(***************************************************************************)
(* A model of src/utils/main-utils.js: the per-cycle update of the         *)
(* persisted Trend records (update, processTrend, updateExistingTrend,     *)
(* createNewTrend, removeOldTrends) against a record store, and the pure   *)
(* keyword / sentiment merge computed by updateExistingTrend.              *)
(***************************************************************************)
EXTENDS Integers, Sequences, FiniteSets, TLC

(* ------------------------------ bounds -------------------------------- *)

\* Longest trends list handed to update.
MaxTrends == 2

\* Most entries of a trends list that names one trend only.
MaxRepeat == 3

\* Longest keyword sequence drawn for the merge alone (each side).
MaxKeywords == 2

\* Bits of the significand of a number (a double has 53; scaled down).
FloatBits == 3

\* Largest tweets_analyzed drawn for the sentiment merge alone (each side).
MaxWeight == 3

(* ------------------------------ values -------------------------------- *)

Names == {"a", "b"}

\* "constructor" is a property every plain JavaScript object inherits.
Words == {"w1", "w2", "w3", "constructor"}

ProtoWords == {"constructor"}

Max(x, y) == IF x >= y THEN x ELSE y

Min(x, y) == IF x <= y THEN x ELSE y

Abs(x) == IF x < 0 THEN -x ELSE x

RECURSIVE Gcd(_, _)
Gcd(x, y) == IF y = 0 THEN x ELSE Gcd(y, x % y)

\* Scores are rationals <<numerator, denominator>>, denominator > 0, reduced.
Rat(n, d) ==
    LET g == Gcd(Abs(n), Abs(d))
        s == IF d < 0 THEN -1 ELSE 1
    IN  <<s * (n \div g), s * (d \div g)>>

Zero == <<0, 1>>

\* A positive n/d rounded to FloatBits significant bits, ties to even.
RECURSIVE roundPositive(_, _)
roundPositive(n, d) ==
    IF n >= d * 2^FloatBits
    THEN Rat(2 * roundPositive(n, 2 * d)[1], roundPositive(n, 2 * d)[2])
    ELSE IF n < d * 2^(FloatBits - 1)
    THEN Rat(roundPositive(2 * n, d)[1], 2 * roundPositive(2 * n, d)[2])
    ELSE IF 2 * (n % d) > d \/ (2 * (n % d) = d /\ (n \div d) % 2 = 1)
    THEN <<(n \div d) + 1, 1>>
    ELSE <<n \div d, 1>>

\* The number nearest to p: every arithmetic operation on numbers ends in it.
fl(p) ==
    IF p[1] = 0 THEN Zero
    ELSE IF p[1] < 0 THEN Rat(-roundPositive(-p[1], p[2])[1], roundPositive(-p[1], p[2])[2])
    ELSE roundPositive(p[1], p[2])

\* score * tweets_analyzed
RatMul(p, k) == fl(Rat(p[1] * k, p[2]))

\* p + q
RatAdd(p, q) == fl(Rat(p[1] * q[2] + q[1] * p[2], p[2] * q[2]))

\* p / newTweetsAnalyzed, for a positive divisor
RatDiv(p, k) == fl(Rat(p[1], p[2] * k))

Kw(w, n) == [word |-> w, occurences |-> n]

(* ------------------- sentimentUtils (not in src/) ---------------------- *)

\* A monotonic mapping from score ranges to labels.
getSentimentDescription(score) ==
    IF score[1] < 0 THEN "Negative"
    ELSE IF score[1] = 0 THEN "Neutral"
    ELSE "Positive"

(* ------------------ updateExistingTrend: pure part --------------------- *)

\* existing.tweets_analyzed + current.tweets_analyzed
newTweetsAnalyzed(existingTA, currentTA) == existingTA + currentTA

\* As newSentimentScore, but with the two tweets_analyzed exchanged.
newSentimentScoreSwapped(existingScore, existingTA, currentScore, currentTA) ==
    IF newTweetsAnalyzed(existingTA, currentTA) > 0
    THEN RatDiv(RatAdd(RatMul(currentScore, existingTA),
                       RatMul(existingScore, currentTA)),
                newTweetsAnalyzed(existingTA, currentTA))
    ELSE Zero

\* As newSentimentScore, but keeping the record's score when no tweet was
\* analyzed on either side.
newSentimentScoreKept(existingScore, existingTA, currentScore, currentTA) ==
    IF newTweetsAnalyzed(existingTA, currentTA) > 0
    THEN RatDiv(RatAdd(RatMul(currentScore, currentTA),
                       RatMul(existingScore, existingTA)),
                newTweetsAnalyzed(existingTA, currentTA))
    ELSE existingScore

\* The weighted score, 0 when no tweet was analyzed on either side.
newSentimentScore(existingScore, existingTA, currentScore, currentTA) ==
    IF newTweetsAnalyzed(existingTA, currentTA) > 0
    THEN RatDiv(RatAdd(RatMul(currentScore, currentTA),
                       RatMul(existingScore, existingTA)),
                newTweetsAnalyzed(existingTA, currentTA))
    ELSE Zero

\* keywordsExisting[keyword.word] read from a plain object: set by the filter,
\* or inherited from Object.prototype.
keywordsExistingTruthy(seen, w) == w \in seen \/ w \in ProtoWords

\* As filterDuplicates, but without keywordsExisting[keyword.word] = true.
RECURSIVE filterDuplicatesUnmarked(_, _)
filterDuplicatesUnmarked(s, seen) ==
    IF s = <<>> THEN <<>>
    ELSE IF keywordsExistingTruthy(seen, Head(s).word)
         THEN filterDuplicatesUnmarked(Tail(s), seen)
         ELSE <<Head(s)>> \o filterDuplicatesUnmarked(Tail(s), seen)

\* concat(...).filter(...): the first entry of each word is kept.
RECURSIVE filterDuplicates(_, _)
filterDuplicates(s, seen) ==
    IF s = <<>> THEN <<>>
    ELSE IF keywordsExistingTruthy(seen, Head(s).word)
         THEN filterDuplicates(Tail(s), seen)
         ELSE <<Head(s)>> \o filterDuplicates(Tail(s), seen \cup {Head(s).word})

\* The comparator of the sort: b.occurences - a.occurences.
compareKeywords(a, b) == b.occurences - a.occurences

\* As insertSorted, but an entry goes before the entries it compares equal to.
RECURSIVE insertSortedUnstable(_, _)
insertSortedUnstable(k, s) ==
    IF s = <<>> THEN <<k>>
    ELSE IF compareKeywords(Head(s), k) < 0
         THEN <<Head(s)>> \o insertSortedUnstable(k, Tail(s))
         ELSE <<k>> \o s

\* Array.prototype.sort keeps the order of entries that compare equal.
RECURSIVE insertSorted(_, _)
insertSorted(k, s) ==
    IF s = <<>> THEN <<k>>
    ELSE IF compareKeywords(Head(s), k) <= 0
         THEN <<Head(s)>> \o insertSorted(k, Tail(s))
         ELSE <<k>> \o s

RECURSIVE sortKeywords(_)
sortKeywords(s) ==
    IF s = <<>> THEN <<>>
    ELSE insertSorted(s[Len(s)], sortKeywords(SubSeq(s, 1, Len(s) - 1)))

\* As slice, but one entry further.
sliceOneMore(s, end) ==
    SubSeq(s, 1, IF end + 1 < 0 THEN Max(Len(s) + end + 1, 0) ELSE Min(end + 1, Len(s)))

\* Array.prototype.slice(0, end): a negative end counts from the end.
slice(s, end) ==
    SubSeq(s, 1, IF end < 0 THEN Max(Len(s) + end, 0) ELSE Min(end, Len(s)))

\* As newKeywords, but with the observation's keywords ahead of the record's.
newKeywordsCurrentFirst(existingKeywords, currentKeywords, maxCount) ==
    slice(sortKeywords(filterDuplicates(currentKeywords \o existingKeywords, {})),
          maxCount)

newKeywords(existingKeywords, currentKeywords, maxCount) ==
    slice(sortKeywords(filterDuplicates(existingKeywords \o currentKeywords, {})),
          maxCount)

(* ------------------------------- state -------------------------------- *)

VARIABLES
    store,            \* the Trend collection: a set of documents
    trends,           \* the trends argument of the update call
    streamData,       \* tweetStream.getData() of the update call
    removeState,      \* the Trend.remove of the update call
    pc,               \* per entry of trends: where its chain of callbacks is
    doc,              \* per entry: what its Trend.findOne delivered
    ptPromise,        \* per entry: the promise returned by processTrend
    trendsProcessed,  \* the counter of update
    promise,          \* the promise returned by update
    resolveCalls,     \* how often update called resolve()
    storeAtStart,     \* the store when update was called
    mExisting,        \* the merge alone: existingTrendData
    mCurrent,         \* the merge alone: currentTrendData
    mMaxCount,        \* the merge alone: config.maxKeywordsPerTrend
    mResult           \* the merge alone: the $set computed, once it is

updateVars == <<store, trends, streamData, removeState, pc, doc, ptPromise,
                trendsProcessed, promise, resolveCalls, storeAtStart>>

mergeVars == <<mExisting, mCurrent, mMaxCount, mResult>>

vars == <<updateVars, mergeVars>>

\* config.maxKeywordsPerTrend in the update call.
maxKeywordsPerTrend == 2

Range(s) == {s[i] : i \in 1..Len(s)}

SeqsUpTo(S, n) == UNION {[1..k -> S] : k \in 0..n}

NoStream == [present |-> FALSE]

Stream(score, analyzed, kws) ==
    [present |-> TRUE, sentiment |-> score, tweets_analyzed |-> analyzed,
     keywords |-> kws]

StreamA == Stream(Rat(1, 2), 1, <<Kw("w1", 2), Kw("w2", 1)>>)

StreamB == Stream(Rat(-1, 1), 1, <<Kw("w2", 1), Kw("w2", 2), Kw("constructor", 2)>>)

\* What the streaming tracker may report for one name.
StreamOptions == {NoStream, StreamA, StreamB}

\* The payloads of the providers are opaque: tagged with the name and the cycle
\* that fetched them ("old": an earlier cycle, "new": the update call modelled).
newsArticlesOf(name, fetched) == <<"articles", name, fetched>>

tweetsOf(name, fetched) == <<"tweets", name, fetched>>

Units == 1..Len(trends)

Terminal == {"done", "failedNews", "failedTweets", "failedFind", "failedWrite"}

\* The first document with the name, in insertion order.
findOneIn(docs, name) ==
    LET found == {r \in docs : r.name = name}
    IN  IF found = {} THEN {}
        ELSE {CHOOSE r \in found : \A q \in found : r.id <= q.id}

freshId == CHOOSE n \in 1..(Cardinality(store) + 1) : \A r \in store : r.id # n

(* --------------------------- processTrend ----------------------------- *)

\* As fullTrendData, but labelling a trend without streaming data by its score.
fullTrendDataLabelled(name, rank, sd, fetched) ==
    [name |-> name,
     rank |-> rank,
     articles |-> newsArticlesOf(name, fetched),
     tweets |-> tweetsOf(name, fetched),
     sentiment_score |-> IF sd.present THEN sd.sentiment ELSE Zero,
     sentiment_description |->
         getSentimentDescription(IF sd.present THEN sd.sentiment ELSE Zero),
     tweets_analyzed |-> IF sd.present THEN sd.tweets_analyzed ELSE 0,
     keywords |-> IF sd.present THEN sd.keywords ELSE <<>>]

\* _.extend(trendData, {...}): the observation as it is written.
fullTrendData(name, rank, sd, fetched) ==
    [name |-> name,
     rank |-> rank,
     articles |-> newsArticlesOf(name, fetched),
     tweets |-> tweetsOf(name, fetched),
     sentiment_score |-> IF sd.present THEN sd.sentiment ELSE Zero,
     sentiment_description |->
         IF sd.present THEN getSentimentDescription(sd.sentiment) ELSE "No Data",
     tweets_analyzed |-> IF sd.present THEN sd.tweets_analyzed ELSE 0,
     keywords |-> IF sd.present THEN sd.keywords ELSE <<>>]

\* The observation of entry i of the update call.
observation(i) == fullTrendData(trends[i], i, streamData[trends[i]], "new")

\* As updateSet, but leaving the rank as it was.
updateSetKeepingRank(existing, current, maxCount) ==
    [sentiment_score |->
         newSentimentScore(existing.sentiment_score, existing.tweets_analyzed,
                           current.sentiment_score, current.tweets_analyzed),
     sentiment_description |->
         getSentimentDescription(
             newSentimentScore(existing.sentiment_score, existing.tweets_analyzed,
                               current.sentiment_score, current.tweets_analyzed)),
     tweets_analyzed |-> newTweetsAnalyzed(existing.tweets_analyzed,
                                            current.tweets_analyzed),
     rank |-> existing.rank,
     keywords |-> newKeywords(existing.keywords, current.keywords, maxCount),
     tweets |-> current.tweets,
     articles |-> current.articles]

\* The $set of updateExistingTrend.
updateSet(existing, current, maxCount) ==
    [sentiment_score |->
         newSentimentScore(existing.sentiment_score, existing.tweets_analyzed,
                           current.sentiment_score, current.tweets_analyzed),
     sentiment_description |->
         getSentimentDescription(
             newSentimentScore(existing.sentiment_score, existing.tweets_analyzed,
                               current.sentiment_score, current.tweets_analyzed)),
     tweets_analyzed |-> newTweetsAnalyzed(existing.tweets_analyzed,
                                            current.tweets_analyzed),
     rank |-> current.rank,
     keywords |-> newKeywords(existing.keywords, current.keywords, maxCount),
     tweets |-> current.tweets,
     articles |-> current.articles]

\* Trend.findOneAndUpdate({name: ...}, {$set: ...}): the first document with
\* the name gets the fields of set; no document with the name, no change.
findOneAndUpdate(docs, name, set) ==
    (docs \ findOneIn(docs, name)) \cup
    { [r EXCEPT !.sentiment_score = set.sentiment_score,
                !.sentiment_description = set.sentiment_description,
                !.tweets_analyzed = set.tweets_analyzed,
                !.rank = set.rank,
                !.keywords = set.keywords,
                !.tweets = set.tweets,
                !.articles = set.articles] : r \in findOneIn(docs, name) }

\* new Trend(trendData): the document that save inserts.
newTrend(data, id) ==
    [id |-> id, name |-> data.name, rank |-> data.rank,
     sentiment_score |-> data.sentiment_score,
     sentiment_description |-> data.sentiment_description,
     tweets_analyzed |-> data.tweets_analyzed,
     keywords |-> data.keywords, tweets |-> data.tweets, articles |-> data.articles]

\* As removeNotIn, but deleting nothing.
removeNothing(docs, currTrends) == docs

\* As removeNotIn, but with $in for $nin.
removeIn(docs, currTrends) == {r \in docs : r.name \notin currTrends}

\* Trend.remove({name: {$nin: currTrends}}): what is left.
removeNotIn(docs, currTrends) == {r \in docs : r.name \in currTrends}

\* As allProcessed, but resolving at the first trend processed.
firstProcessed(n, length) == n = 1

\* trendsProcessed === trends.length
allProcessed(n, length) == n = length

(* ------------------- the store before the update call ------------------ *)

\* Documents as earlier cycles leave them: created by createNewTrend, then
\* possibly merged by updateExistingTrend.
createdEarlier(name, id, sd) == newTrend(fullTrendData(name, id, sd, "old"), id)

mergedEarlier(r, sd) ==
    CHOOSE q \in findOneAndUpdate({r}, r.name,
                    updateSet(r, fullTrendData(r.name, r.rank, sd, "old"),
                              maxKeywordsPerTrend)) : TRUE

InitialStores ==
    { {},
      {createdEarlier("a", 1, NoStream), createdEarlier("b", 2, StreamA)},
      {mergedEarlier(createdEarlier("a", 1, NoStream), StreamA),
       createdEarlier("c", 2, NoStream)} }

(* ------------------------------ actions ------------------------------- *)

Idle ==
    /\ trends = <<>>
    /\ streamData = [n \in Names |-> NoStream]
    /\ removeState = "none"
    /\ pc = <<>>
    /\ doc = <<>>
    /\ ptPromise = <<>>
    /\ trendsProcessed = 0
    /\ promise = "none"
    /\ resolveCalls = 0

NoMerge ==
    /\ mExisting = createdEarlier("a", 1, NoStream)
    /\ mCurrent = fullTrendData("a", 1, NoStream, "new")
    /\ mMaxCount = maxKeywordsPerTrend
    /\ mResult = {}

Init ==
    /\ store \in InitialStores
    /\ storeAtStart = store
    /\ Idle
    /\ NoMerge

\* update: the synchronous part, up to the requests it issues.
Update(ts, sd) ==
    /\ promise = "none"
    /\ \A n \in Names : n \notin Range(ts) => sd[n] = NoStream
    /\ trends' = ts
    /\ streamData' = sd
    /\ removeState' = "pending"
    /\ trendsProcessed' = 0
    /\ promise' = "pending"
    /\ pc' = [i \in 1..Len(ts) |-> "news"]
    /\ doc' = [i \in 1..Len(ts) |-> {}]
    /\ ptPromise' = [i \in 1..Len(ts) |-> "none"]
    /\ storeAtStart' = store
    /\ UNCHANGED <<store, resolveCalls, mergeVars>>

\* removeOldTrends: the delete runs.
RemoveOldTrends ==
    /\ removeState = "pending"
    /\ removeState' = "done"
    /\ store' = removeNotIn(store, Range(trends))
    /\ UNCHANGED <<trends, streamData, pc, doc, ptPromise, trendsProcessed,
                   promise, resolveCalls, storeAtStart, mergeVars>>

\* removeOldTrends rejects; update has dropped the promise.
RemoveOldTrendsFails ==
    /\ removeState = "pending"
    /\ removeState' = "failed"
    /\ UNCHANGED <<store, trends, streamData, pc, doc, ptPromise,
                   trendsProcessed, promise, resolveCalls, storeAtStart, mergeVars>>

\* The callback of news.getNews: it asks for the tweet sample.
NewsCallback(i) ==
    /\ pc[i] = "news"
    /\ pc' = [pc EXCEPT ![i] = "tweets"]
    /\ UNCHANGED <<store, trends, streamData, removeState, doc, ptPromise,
                   trendsProcessed, promise, resolveCalls, storeAtStart, mergeVars>>

\* news.getNews fails: the callback is never called.
NewsFails(i) ==
    /\ pc[i] = "news"
    /\ pc' = [pc EXCEPT ![i] = "failedNews"]
    /\ UNCHANGED <<store, trends, streamData, removeState, doc, ptPromise,
                   trendsProcessed, promise, resolveCalls, storeAtStart, mergeVars>>

\* getTweetSample resolves: processTrend is called and issues Trend.findOne.
TweetsThen(i) ==
    /\ pc[i] = "tweets"
    /\ pc' = [pc EXCEPT ![i] = "find"]
    /\ ptPromise' = [ptPromise EXCEPT ![i] = "pending"]
    /\ UNCHANGED <<store, trends, streamData, removeState, doc,
                   trendsProcessed, promise, resolveCalls, storeAtStart, mergeVars>>

\* getTweetSample rejects: update has attached no handler for that.
TweetsFails(i) ==
    /\ pc[i] = "tweets"
    /\ pc' = [pc EXCEPT ![i] = "failedTweets"]
    /\ UNCHANGED <<store, trends, streamData, removeState, doc, ptPromise,
                   trendsProcessed, promise, resolveCalls, storeAtStart, mergeVars>>

\* Trend.findOne resolves: updateExistingTrend or createNewTrend is called.
FindOneThen(i) ==
    /\ pc[i] = "find"
    /\ doc' = [doc EXCEPT ![i] = findOneIn(store, trends[i])]
    /\ pc' = [pc EXCEPT ![i] =
                 IF findOneIn(store, trends[i]) # {} THEN "update" ELSE "create"]
    /\ UNCHANGED <<store, trends, streamData, removeState, ptPromise,
                   trendsProcessed, promise, resolveCalls, storeAtStart, mergeVars>>

\* The promise of processTrend when Trend.findOne rejects: .catch(reject).
findOneRejected == "rejected"

FindOneFails(i) ==
    /\ pc[i] = "find"
    /\ pc' = [pc EXCEPT ![i] = "failedFind"]
    /\ ptPromise' = [ptPromise EXCEPT ![i] = findOneRejected]
    /\ UNCHANGED <<store, trends, streamData, removeState, doc,
                   trendsProcessed, promise, resolveCalls, storeAtStart, mergeVars>>

\* The promise of processTrend when the write it started rejects: only
\* .then(resolve) is attached to updateExistingTrend / createNewTrend, and the
\* promise is not returned into the chain that ends in .catch(reject).
writeRejected == "pending"

\* Trend.findOneAndUpdate runs with the $set computed from the document read.
FindOneAndUpdateThen(i) ==
    /\ pc[i] = "update"
    /\ store' = findOneAndUpdate(store, trends[i],
                    updateSet(CHOOSE r \in doc[i] : TRUE, observation(i),
                              maxKeywordsPerTrend))
    /\ pc' = [pc EXCEPT ![i] = "written"]
    /\ ptPromise' = [ptPromise EXCEPT ![i] = "resolved"]
    /\ UNCHANGED <<trends, streamData, removeState, doc, trendsProcessed,
                   promise, resolveCalls, storeAtStart, mergeVars>>

\* new Trend(trendData).save() inserts the document.
SaveThen(i) ==
    /\ pc[i] = "create"
    /\ store' = store \cup {newTrend(observation(i), freshId)}
    /\ pc' = [pc EXCEPT ![i] = "written"]
    /\ ptPromise' = [ptPromise EXCEPT ![i] = "resolved"]
    /\ UNCHANGED <<trends, streamData, removeState, doc, trendsProcessed,
                   promise, resolveCalls, storeAtStart, mergeVars>>

\* Trend.findOneAndUpdate or save rejects: nothing is written.
WriteFails(i) ==
    /\ pc[i] \in {"update", "create"}
    /\ pc' = [pc EXCEPT ![i] = "failedWrite"]
    /\ ptPromise' = [ptPromise EXCEPT ![i] = writeRejected]
    /\ UNCHANGED <<store, trends, streamData, removeState, doc,
                   trendsProcessed, promise, resolveCalls, storeAtStart, mergeVars>>

\* The .then of processTrend in update: count, and resolve at the last one.
ProcessedThen(i) ==
    /\ pc[i] = "written"
    /\ pc' = [pc EXCEPT ![i] = "done"]
    /\ trendsProcessed' = trendsProcessed + 1
    /\ IF allProcessed(trendsProcessed + 1, Len(trends))
       THEN /\ resolveCalls' = resolveCalls + 1
            /\ promise' = IF promise = "pending" THEN "resolved" ELSE promise
       ELSE UNCHANGED <<promise, resolveCalls>>
    /\ UNCHANGED <<store, trends, streamData, removeState, doc, ptPromise,
                   storeAtStart, mergeVars>>

\* The callbacks of one update call.
Callbacks ==
    \/ RemoveOldTrends
    \/ RemoveOldTrendsFails
    \/ \E i \in Units : NewsCallback(i)
    \/ \E i \in Units : NewsFails(i)
    \/ \E i \in Units : TweetsThen(i)
    \/ \E i \in Units : TweetsFails(i)
    \/ \E i \in Units : FindOneThen(i)
    \/ \E i \in Units : FindOneFails(i)
    \/ \E i \in Units : FindOneAndUpdateThen(i)
    \/ \E i \in Units : SaveThen(i)
    \/ \E i \in Units : WriteFails(i)
    \/ \E i \in Units : ProcessedThen(i)

\* One update call with any trends list of up to MaxTrends entries.
Next ==
    \/ \E ts \in SeqsUpTo(Names, MaxTrends), sd \in [Names -> StreamOptions] :
           Update(ts, sd)
    \/ Callbacks

Spec == Init /\ [][Next]_vars

\* One update call whose trends list names one trend, up to MaxRepeat times.
NextSameName ==
    \/ \E n \in Names, k \in 1..MaxRepeat, sd \in [Names -> StreamOptions] :
           Update([i \in 1..k |-> n], sd)
    \/ Callbacks

SpecSameName == Init /\ [][NextSameName]_vars

(* ----------------------- the keyword merge alone ----------------------- *)

Occurences == {1, 2}

MaxCounts == -1..3

KeywordSeqs == SeqsUpTo({Kw(w, n) : w \in Words, n \in Occurences}, MaxKeywords)

InitKeywords ==
    /\ store = {}
    /\ storeAtStart = {}
    /\ Idle
    /\ \E ks \in KeywordSeqs :
           mExisting = [createdEarlier("a", 1, NoStream) EXCEPT !.keywords = ks]
    /\ \E ks \in KeywordSeqs :
           mCurrent = [fullTrendData("a", 1, NoStream, "new") EXCEPT !.keywords = ks]
    /\ mMaxCount \in MaxCounts
    /\ mResult = {}

\* updateExistingTrend computes its $set.
Merge ==
    /\ mResult = {}
    /\ mResult' = {updateSet(mExisting, mCurrent, mMaxCount)}
    /\ UNCHANGED <<updateVars, mExisting, mCurrent, mMaxCount>>

SpecKeywords == InitKeywords /\ [][Merge]_vars

(* ---------------------- the sentiment merge alone ---------------------- *)

\* Sentiment scores: numbers of FloatBits bits between -1 and 1.
Scores == {Rat(k, 8) : k \in -7..7}

Weights == 0..MaxWeight

InitSentiment ==
    /\ store = {}
    /\ storeAtStart = {}
    /\ Idle
    /\ \E sc \in Scores, ta \in Weights :
           mExisting = [createdEarlier("a", 1, NoStream) EXCEPT
                           !.sentiment_score = sc,
                           !.sentiment_description = getSentimentDescription(sc),
                           !.tweets_analyzed = ta]
    /\ \E sc \in Scores, ta \in Weights :
           mCurrent = fullTrendData("a", 1, Stream(sc, ta, <<>>), "new")
    /\ mMaxCount = maxKeywordsPerTrend
    /\ mResult = {}

SpecSentiment == InitSentiment /\ [][Merge]_vars

(* ------------------------------ properties ---------------------------- *)

Failed == {"failedNews", "failedTweets", "failedFind", "failedWrite"}

\* No callback of the update call is outstanding.
Quiescent == removeState # "pending" /\ \A i \in Units : pc[i] \in Terminal

distinctWords(ks) == \A i, j \in 1..Len(ks) : ks[i].word = ks[j].word => i = j

\* C1: every persisted record's keywords has at most maxKeywordsPerTrend
\* entries and no two entries with the same word.
C1_KeywordsBoundedDistinct ==
    \A r \in store :
        Len(r.keywords) <= maxKeywordsPerTrend /\ distinctWords(r.keywords)

\* C2: the store never holds two records with the same name.
C2_NameUnique == \A r, q \in store : r.name = q.name => r.id = q.id

\* C3: the tweets_analyzed of a record that stays in the store never decreases
\* from one state of the store to the next.
C3_TweetsAnalyzedMonotone ==
    [][\A r \in store : \A q \in store' :
           q.id = r.id => q.tweets_analyzed >= r.tweets_analyzed]_vars

\* C4: when a unit of the update call has failed in its I/O, the promise of
\* update does not stay pending: once nothing is outstanding it has settled.
C4_FailureSettles ==
    (Quiescent /\ \E i \in Units : pc[i] \in Failed) => promise # "pending"

\* C5: update is resolved only when the processTrend promise of every entry of
\* trends has resolved and been counted; the counter never exceeds
\* trends.length and resolve is called at most once.
C5_ResolvesAfterAll ==
    /\ promise = "resolved" =>
           \A i \in Units : ptPromise[i] = "resolved" /\ pc[i] = "done"
    /\ trendsProcessed <= Len(trends)
    /\ trendsProcessed = Cardinality({i \in Units : pc[i] = "done"})
    /\ resolveCalls <= 1

C5_Witness ==
    /\ promise = "resolved"
    /\ Len(trends) = 2
    /\ trendsProcessed = 2

\* C6: when Trend.findOne, Trend.findOneAndUpdate or save has failed for an
\* entry, the promise of its processTrend is rejected.
C6_PersistenceFailureRejects ==
    \A i \in Units : pc[i] \in {"failedFind", "failedWrite"} => ptPromise[i] = "rejected"

\* C7: a trend of the trends list whose every update of the call has failed has
\* in the store exactly the records it had when update was called: none
\* changed, none deleted, none added; and the step in which an update fails
\* changes nothing in the store.
C7_FailedTrendKeepsRecord ==
    /\ [](\A n \in Range(trends) :
             (\A i \in Units : trends[i] = n => pc[i] \in Failed) =>
                 {r \in store : r.name = n} = {r \in storeAtStart : r.name = n})
    /\ [][(\E i \in Units : pc[i] \notin Failed /\ pc'[i] \in Failed) =>
              store' = store]_vars

C7_Witness ==
    /\ removeState = "done"
    /\ \E i, j \in Units :
           /\ pc[i] = "failedWrite" /\ doc[i] # {}
           /\ \E r \in store : r.name = trends[i]
           /\ trends[j] # trends[i] /\ pc[j] = "done"
    /\ store # storeAtStart

\* C8: the delete of removeOldTrends leaves exactly the records whose name is
\* in currTrends; once it is done no record with another name is in the store;
\* and no step of the update call takes a record whose name is in currTrends
\* out of the store.
C8_RemovesExactlyOld ==
    /\ [](removeState = "done" => \A r \in store : r.name \in Range(trends))
    /\ [][(removeState = "pending" /\ removeState' = "done") =>
              store' = {r \in store : r.name \in Range(trends)}]_vars
    /\ [][\A r \in store : r.name \in Range(trends) =>
              \E q \in store' : q.id = r.id /\ q.name = r.name]_vars

C8_Witness ==
    /\ removeState = "done"
    /\ \E r \in storeAtStart : r.name \notin Range(trends)
    /\ \E r \in storeAtStart : r.name \in Range(trends)
    /\ \E i \in Units : pc[i] = "done" /\ doc[i] = {}
    /\ \E i \in Units : pc[i] = "done" /\ doc[i] # {}

\* The first index of word w in ks (0 when it has none).
firstIndex(ks, w) ==
    IF \E i \in 1..Len(ks) : ks[i].word = w
    THEN CHOOSE i \in 1..Len(ks) :
             ks[i].word = w /\ \A j \in 1..(i - 1) : ks[j].word # w
    ELSE 0

\* C9: a word of both the record's and the observation's keywords, with
\* different occurences, has in the merged keywords the record's occurences.
C9_ExistingOccurencesWin ==
    \A m \in mResult :
        \A i \in 1..Len(mExisting.keywords), j \in 1..Len(mCurrent.keywords) :
            (/\ i = firstIndex(mExisting.keywords, mExisting.keywords[i].word)
             /\ mCurrent.keywords[j].word = mExisting.keywords[i].word
             /\ mCurrent.keywords[j].occurences # mExisting.keywords[i].occurences)
            => \A k \in 1..Len(m.keywords) :
                   m.keywords[k].word = mExisting.keywords[i].word =>
                       m.keywords[k].occurences = mExisting.keywords[i].occurences

C9_Witness ==
    \E m \in mResult :
        \E i \in 1..Len(mExisting.keywords), j \in 1..Len(mCurrent.keywords),
           k \in 1..Len(m.keywords) :
            /\ mCurrent.keywords[j].word = mExisting.keywords[i].word
            /\ mCurrent.keywords[j].occurences # mExisting.keywords[i].occurences
            /\ m.keywords[k].word = mExisting.keywords[i].word
            /\ m.keywords[k].occurences = mExisting.keywords[i].occurences

\* C10: the merged keywords are in non-ascending order of occurences, and
\* entries of equal occurences are in the order in which their words first
\* occur in existing.keywords ++ current.keywords.
C10_SortedStable ==
    \A m \in mResult :
        \A i, j \in 1..Len(m.keywords) :
            i < j =>
                /\ m.keywords[i].occurences >= m.keywords[j].occurences
                /\ m.keywords[i].occurences = m.keywords[j].occurences =>
                       firstIndex(mExisting.keywords \o mCurrent.keywords,
                                  m.keywords[i].word)
                       < firstIndex(mExisting.keywords \o mCurrent.keywords,
                                    m.keywords[j].word)

C10_Witness ==
    \E m \in mResult :
        /\ Len(m.keywords) = 3
        /\ m.keywords[1].occurences > m.keywords[2].occurences
        /\ m.keywords[2].occurences = m.keywords[3].occurences
        /\ Len(mExisting.keywords) = 2
        /\ mExisting.keywords[1].occurences < mExisting.keywords[2].occurences

\* C11: the merged keywords hold no two entries with the same word, whatever
\* the record's and the observation's keywords, repeated words included.
C11_MergedWordsDistinct == \A m \in mResult : distinctWords(m.keywords)

C11_Witness ==
    \E m \in mResult :
        /\ ~distinctWords(mExisting.keywords)
        /\ ~distinctWords(mCurrent.keywords)
        /\ mExisting.keywords[1].word = mCurrent.keywords[1].word
        /\ Len(m.keywords) = 1
        /\ mMaxCount >= 2

\* C12 as stated: the merged keywords have at most maxCount entries, for every
\* value of maxCount.
C12_LengthAtMostMaxCount == \A m \in mResult : Len(m.keywords) <= mMaxCount

\* C12 amended: for every maxCount >= 0 the merged keywords have at most
\* maxCount entries.
C12_LengthAtMostNonNegativeMaxCount ==
    \A m \in mResult : mMaxCount >= 0 => Len(m.keywords) <= mMaxCount

C12_Witness ==
    \E m \in mResult :
        /\ mMaxCount = 2
        /\ Len(m.keywords) = 2
        /\ Len(filterDuplicates(mExisting.keywords \o mCurrent.keywords, {})) > 2

\* C13: with maxCount zero or negative the merged keywords are empty.
C13_NonPositiveMaxCountEmpty ==
    \A m \in mResult : mMaxCount <= 0 => m.keywords = <<>>

\* C14 as stated: when the record's tweets_analyzed is 0, the sentiment_score
\* written is the observation's sentiment_score, whatever its tweets_analyzed.
C14_ZeroExistingWeightGivesIncoming ==
    \A m \in mResult :
        mExisting.tweets_analyzed = 0 => m.sentiment_score = mCurrent.sentiment_score

\* C14 amended: when the record's tweets_analyzed is 0, the sentiment_score
\* written is 0 if the observation's tweets_analyzed is 0 too; otherwise it is
\* the observation's score times its weight, divided by that weight, each
\* rounded: the observation's score itself when the product is exact, and
\* within 3 * 2^-FloatBits of it (relatively) in any case. The record's score
\* has no part in it.
C14_ZeroExistingWeightRounded ==
    \A m \in mResult :
        mExisting.tweets_analyzed = 0 =>
            /\ mCurrent.tweets_analyzed = 0 => m.sentiment_score = Zero
            /\ mCurrent.tweets_analyzed > 0 =>
                   /\ m.sentiment_score =
                          fl(Rat(fl(Rat(mCurrent.sentiment_score[1]
                                            * mCurrent.tweets_analyzed,
                                        mCurrent.sentiment_score[2]))[1],
                                 fl(Rat(mCurrent.sentiment_score[1]
                                            * mCurrent.tweets_analyzed,
                                        mCurrent.sentiment_score[2]))[2]
                                     * mCurrent.tweets_analyzed))
                   /\ fl(Rat(mCurrent.sentiment_score[1] * mCurrent.tweets_analyzed,
                             mCurrent.sentiment_score[2]))
                          = Rat(mCurrent.sentiment_score[1] * mCurrent.tweets_analyzed,
                                mCurrent.sentiment_score[2])
                      => m.sentiment_score = mCurrent.sentiment_score
                   /\ Abs(m.sentiment_score[1] * mCurrent.sentiment_score[2]
                          - mCurrent.sentiment_score[1] * m.sentiment_score[2])
                          * 2^FloatBits
                      <= 3 * Abs(mCurrent.sentiment_score[1]) * m.sentiment_score[2]

C14_Witness ==
    \E m \in mResult :
        /\ mExisting.tweets_analyzed = 0
        /\ mExisting.sentiment_score # Zero
        /\ mCurrent.tweets_analyzed = 3
        /\ mCurrent.sentiment_score = Rat(3, 8)
        /\ m.sentiment_score = Rat(5, 16)

\* C15: when the record's and the observation's tweets_analyzed are both 0 the
\* sentiment_score written is 0; when their sum is positive it is
\* (current.score * current.weight + existing.score * existing.weight) / sum.
C15_WeightedScore ==
    \A m \in mResult :
        /\ (mExisting.tweets_analyzed = 0 /\ mCurrent.tweets_analyzed = 0) =>
               m.sentiment_score = Zero
        /\ mExisting.tweets_analyzed + mCurrent.tweets_analyzed > 0 =>
               m.sentiment_score =
                   RatDiv(RatAdd(RatMul(mCurrent.sentiment_score,
                                        mCurrent.tweets_analyzed),
                                 RatMul(mExisting.sentiment_score,
                                        mExisting.tweets_analyzed)),
                          mExisting.tweets_analyzed + mCurrent.tweets_analyzed)

C15_Witness ==
    \E m \in mResult :
        /\ mExisting.tweets_analyzed = 0
        /\ mCurrent.tweets_analyzed = 0
        /\ mExisting.sentiment_score # Zero
        /\ mCurrent.sentiment_score # Zero
        /\ m.sentiment_score = Zero

\* C16: the step in which Trend.findOneAndUpdate runs for entry i gives the
\* record of that name the rank, tweets and articles of the observation, keeps
\* the ids and names of all records, and changes no record of another name and
\* at most one record in all.
C16_MergeReplacesAndFrames ==
    [][\A i \in Units :
          (pc[i] = "update" /\ pc'[i] = "written") =>
              /\ \A r \in findOneIn(store, trends[i]) :
                     \E q \in store' :
                         /\ q.id = r.id
                         /\ q.name = r.name
                         /\ q.rank = i
                         /\ q.tweets = <<"tweets", trends[i], "new">>
                         /\ q.articles = <<"articles", trends[i], "new">>
              /\ {<<r.id, r.name>> : r \in store'} = {<<r.id, r.name>> : r \in store}
              /\ \A r \in store : r.name # trends[i] => r \in store'
              /\ Cardinality(store \ store') <= 1]_vars

C16_Witness ==
    \E r \in store, q \in storeAtStart, o \in store :
        /\ r.id = q.id
        /\ r.rank # q.rank
        /\ q.tweets = <<"tweets", q.name, "old">>
        /\ r.tweets = <<"tweets", q.name, "new">>
        /\ r.articles = <<"articles", q.name, "new">>
        /\ o.name # r.name
        /\ o \in storeAtStart

\* C17: the step in which save runs for entry i inserts one record of that
\* name: with no streaming data for the name it has score 0, "No Data",
\* tweets_analyzed 0 and no keywords; with streaming data it has the
\* sentiment, tweets_analyzed and keywords of the streaming data as they are.
C17_CreatedRecord ==
    [][\A i \in Units :
          (pc[i] = "create" /\ pc'[i] = "written") =>
              \E r \in store' \ store :
                  /\ store' = store \cup {r}
                  /\ r.name = trends[i]
                  /\ ~streamData[trends[i]].present =>
                         /\ r.sentiment_score = <<0, 1>>
                         /\ r.sentiment_description = "No Data"
                         /\ r.tweets_analyzed = 0
                         /\ r.keywords = <<>>
                  /\ streamData[trends[i]].present =>
                         /\ r.sentiment_score = streamData[trends[i]].sentiment
                         /\ r.tweets_analyzed = streamData[trends[i]].tweets_analyzed
                         /\ r.keywords = streamData[trends[i]].keywords]_vars

C17_Witness ==
    /\ storeAtStart = {}
    /\ \E r, q \in store :
           /\ ~streamData[r.name].present
           /\ r.sentiment_description = "No Data"
           /\ streamData[q.name].present
           /\ Len(q.keywords) = 3

\* C18: a record without streaming history (its tweets_analyzed is 0) has the
\* sentiment_description "No Data".
C18_NoHistoryKeepsNoData ==
    \A r \in store : r.tweets_analyzed = 0 => r.sentiment_description = "No Data"

\* C19: when no external call of an update call has failed and none is
\* outstanding, the promise of update is resolved.
C19_AllSucceedResolves ==
    (promise # "none" /\ removeState = "done" /\ \A i \in Units : pc[i] = "done")
        => promise = "resolved"

\* The entries of ks that are the first of their word.
RECURSIVE firstOfEachWord(_, _)
firstOfEachWord(ks, i) ==
    IF i > Len(ks) THEN <<>>
    ELSE IF firstIndex(ks, ks[i].word) = i
         THEN <<ks[i]>> \o firstOfEachWord(ks, i + 1)
         ELSE firstOfEachWord(ks, i + 1)

wordsOf(ks) == {ks[i].word : i \in 1..Len(ks)}

\* C20: the words of the merged keywords are the words of the first
\* min(maxCount, d) entries of the deduplicated, sorted concatenation, d being
\* the number of its distinct words; with d <= maxCount every word of the
\* input is in the merged keywords exactly once.
C20_NoWordLost ==
    \A m \in mResult :
        LET all == mExisting.keywords \o mCurrent.keywords
            d == Cardinality(wordsOf(all))
            ranked == sortKeywords(firstOfEachWord(all, 1))
        IN  /\ wordsOf(m.keywords) = wordsOf(SubSeq(ranked, 1, Min(mMaxCount, d)))
            /\ d <= mMaxCount =>
                   \A w \in wordsOf(all) :
                       Cardinality({k \in 1..Len(m.keywords) : m.keywords[k].word = w}) = 1

====
